---- MODULE Spec2Model ----
(***************************************************************************)
(* butcher: a constrained use-case FASTQ trimmer (src/src/main.rs).        *)
(*                                                                         *)
(* The model covers the FASTQ stream decoder (FastqInputFile::next), the   *)
(* start-up in main (argument check, construction of the cutter list), the *)
(* single-end and paired-end drivers and the FASTQ writer.  The trimmers   *)
(* module (trimmers.rs: TrimResult and the FastqTrimmer implementations)   *)
(* is modelled from the design document, sections 3 and 4.                 *)
(*                                                                         *)
(* Bytes are one-symbol strings; a file, a line and a read's sequence are  *)
(* sequences of bytes.                                                     *)
(***************************************************************************)
EXTENDS Integers, Sequences, FiniteSets, TLC

VARIABLES
    pc,          \* where the process is: "start", "single", "paired", "done",
                 \* a "panic_..." state, or the stand-alone "decode"/"compose"
    args,        \* the parsed command line (struct Args)
    cutters,     \* main's Vec<Box<dyn FastqTrimmer>>
    fastq1,      \* content of the first input file (after gzip decoding)
    fastq2,      \* content of the second input file
    reader1,     \* bytes the first FastqInputFile has not read yet
    reader2,     \* bytes the second FastqInputFile has not read yet
    out_fastq1,  \* bytes written to output 1
    out_fastq2,  \* bytes written to output 2
    stdout,      \* what preview mode printed (read names)
    history,     \* log: one entry per loop iteration / per decoder call
    read_len,    \* length of the read the proposals are about (composition)
    proposals,   \* one proposal per cutter (composition)
    order,       \* indices of the proposals joined so far (composition)
    base_cuts    \* the running decision (composition)

vars == <<pc, args, cutters, fastq1, fastq2, reader1, reader2, out_fastq1,
          out_fastq2, stdout, history, read_len, proposals, order, base_cuts>>

(***************************************************************************)
(* Bounds of the model.                                                    *)
(***************************************************************************)
MaxLines == 5     \* lines of a raw input stream given to the decoder
MaxCalls == 3     \* calls of next() on one stream in the decoder runs
MaxRecs == 2      \* records of an input file in the driver runs
MaxLen == 2       \* read length in the composition runs

Min(a, b) == IF a < b THEN a ELSE b
Max(a, b) == IF a > b THEN a ELSE b

RECURSIVE Flatten(_)
Flatten(ss) == IF ss = <<>> THEN <<>> ELSE Head(ss) \o Flatten(Tail(ss))

(***************************************************************************)
(* Bytes.                                                                  *)
(***************************************************************************)
NL == "\n"
BadByte == "0xFF"   \* a byte that is not valid UTF-8: read_line fails on it

(***************************************************************************)
(* BufRead::read_line as FastqInputFile::next uses it: the bytes up to and *)
(* including the first line feed (or to the end of the stream) are         *)
(* consumed; Ok with the line, or Err when the line is not valid UTF-8.    *)
(* At the end of the stream the line is empty.                             *)
(***************************************************************************)
LineEnd(s) ==
    IF \E i \in 1..Len(s) : s[i] = NL
    THEN CHOOSE i \in 1..Len(s) : s[i] = NL /\ \A j \in 1..(i - 1) : s[j] # NL
    ELSE Len(s)

ReadLine(s) ==
    LET n == LineEnd(s)
        line == SubSeq(s, 1, n)
    IN  [ok   |-> \A i \in 1..n : line[i] # BadByte,
         line |-> line,
         rest |-> SubSeq(s, n + 1, Len(s))]

\* Vec::pop / String::pop: drops the last element, whatever it is
Pop(v) == IF Len(v) = 0 THEN v ELSE SubSeq(v, 1, Len(v) - 1)

\* struct FastqRecord
FastqRecord(name, seq, quals) == [name |-> name, seq |-> seq, quals |-> quals]

NoRecord == FastqRecord(<<>>, <<>>, <<>>)

(***************************************************************************)
(* FastqInputFile::next on the unread bytes s.  kind is "Some" (a record), *)
(* "None" (end of the iteration) or "Panic" (assert_eq!(name[0], b'@')     *)
(* failed); rest is what is left unread.                                   *)
(***************************************************************************)
FastqNextNoEofCheck(s) ==
    LET l1 == ReadLine(s)
        l2 == ReadLine(l1.rest)
        l3 == ReadLine(l2.rest)
        l4 == ReadLine(l3.rest)
    IN  IF ~l1.ok THEN [kind |-> "None", rec |-> NoRecord, rest |-> l1.rest]
        ELSE IF Len(l1.line) = 0 \/ l1.line[1] # "@"
             THEN [kind |-> "Panic", rec |-> NoRecord, rest |-> l1.rest]
        ELSE IF ~l2.ok THEN [kind |-> "None", rec |-> NoRecord, rest |-> l2.rest]
        ELSE IF ~l3.ok THEN [kind |-> "None", rec |-> NoRecord, rest |-> l3.rest]
        ELSE IF ~l4.ok THEN [kind |-> "None", rec |-> NoRecord, rest |-> l4.rest]
        ELSE [kind |-> "Some",
              rec  |-> FastqRecord(Pop(l1.line), Pop(l2.line), Pop(l4.line)),
              rest |-> l4.rest]

FastqNext(s) ==
    LET l1 == ReadLine(s)
        l2 == ReadLine(l1.rest)
        l3 == ReadLine(l2.rest)
        l4 == ReadLine(l3.rest)
    IN  IF ~l1.ok THEN [kind |-> "None", rec |-> NoRecord, rest |-> l1.rest]
        ELSE IF Len(l1.line) = 0
             THEN [kind |-> "None", rec |-> NoRecord, rest |-> l1.rest]
        ELSE IF l1.line[1] # "@"
             THEN [kind |-> "Panic", rec |-> NoRecord, rest |-> l1.rest]
        ELSE IF ~l2.ok THEN [kind |-> "None", rec |-> NoRecord, rest |-> l2.rest]
        ELSE IF ~l3.ok THEN [kind |-> "None", rec |-> NoRecord, rest |-> l3.rest]
        ELSE IF ~l4.ok THEN [kind |-> "None", rec |-> NoRecord, rest |-> l4.rest]
        ELSE [kind |-> "Some",
              rec  |-> FastqRecord(Pop(l1.line), Pop(l2.line), Pop(l4.line)),
              rest |-> l4.rest]

\* every record an iteration over the file yields, until None or a panic
RECURSIVE ReadAll(_)
ReadAll(s) ==
    LET nx == FastqNext(s)
    IN  IF nx.kind = "Some" THEN <<nx.rec>> \o ReadAll(nx.rest) ELSE <<>>

(***************************************************************************)
(* write_read: name, sequence, the fixed separator line and qualities,     *)
(* each followed by a line feed.                                           *)
(***************************************************************************)
WriteRead(record) ==
    record.name \o <<NL>> \o record.seq \o <<NL, "+", NL>> \o record.quals \o <<NL>>

(***************************************************************************)
(* TrimResult (trimmers.rs, from the design document section 3): a         *)
(* proposal of one trimmer, and the decision composed from proposals.      *)
(* split_point is <<>> (none) or <<offset>>.                               *)
(***************************************************************************)
TrimResult(front, back, split, drop) ==
    [front_cut |-> front, back_cut |-> back, split_point |-> split,
     drop |-> drop, keep |-> ~(drop /\ split = <<>>)]

\* TrimResult::from_read: the no-op decision a fold starts from
FromRead == TrimResult(0, 0, <<>>, FALSE)

RECURSIVE MaxFront(_)
MaxFront(rs) == IF rs = <<>> THEN 0 ELSE Max(Head(rs).front_cut, MaxFront(Tail(rs)))

RECURSIVE MaxBack(_)
MaxBack(rs) == IF rs = <<>> THEN 0 ELSE Max(Head(rs).back_cut, MaxBack(Tail(rs)))

RECURSIVE FirstSplit(_)
FirstSplit(rs) ==
    IF rs = <<>> THEN <<>>
    ELSE IF Head(rs).split_point # <<>> THEN Head(rs).split_point
    ELSE FirstSplit(Tail(rs))

(***************************************************************************)
(* TrimResult::join on a read of n symbols: the largest front cut and the  *)
(* largest back cut, clamped so that front_cut + back_cut <= n; the first  *)
(* split point any proposal has; keep is false iff some proposal drops the *)
(* read and none splits it.                                                *)
(***************************************************************************)
Join(rs, n) ==
    LET front == Min(MaxFront(rs), n)
        back  == Min(MaxBack(rs), n - front)
    IN  TrimResult(front, back, FirstSplit(rs),
                   \E i \in 1..Len(rs) : rs[i].drop)

\* TrimResult::keep
Keep(tr) == tr.keep

(***************************************************************************)
(* TrimResult::trim_results_to_reads: nothing when the read is not kept;   *)
(* the retained span (front_cut and back_cut removed) as one read; or,     *)
(* with a split point, the two parts of the retained span before and after *)
(* it, their names given a positional suffix.                              *)
(***************************************************************************)
Slice(read, lo, hi, suffix) ==
    FastqRecord(read.name \o suffix,
                SubSeq(read.seq, lo + 1, hi),
                SubSeq(read.quals, lo + 1, hi))

TrimResultsToReads(tr, read) ==
    LET n  == Len(read.seq)
        lo == tr.front_cut
        hi == n - tr.back_cut
    IN  IF ~tr.keep THEN <<>>
        ELSE IF tr.split_point = <<>> THEN <<Slice(read, lo, hi, <<>>)>>
        ELSE LET k == Max(lo, Min(tr.split_point[1], hi))
             IN  <<Slice(read, lo, k, <<"_", "1">>), Slice(read, k, hi, <<"_", "2">>)>>

(***************************************************************************)
(* The quality-window trimmers (BackTrimmer, FrontBackTrimmer), design     *)
(* document section 4.1.  A window fails when the average of               *)
(* (quality byte - qual_score_base) over it is below window_min_qual_score.*)
(***************************************************************************)
Ord(c) ==
    CASE c = "!" -> 33 [] c = "+" -> 43 [] c = "5" -> 53 [] c = "@" -> 64
      [] c = "A" -> 65 [] c = "C" -> 67 [] c = "G" -> 71 [] c = "I" -> 73
      [] c = "T" -> 84 [] OTHER -> 95

RECURSIVE SumQuals(_, _, _, _)
SumQuals(quals, lo, hi, base) ==
    IF lo > hi THEN 0 ELSE (Ord(quals[lo]) - base) + SumQuals(quals, lo + 1, hi, base)

\* the window sizes of a read shorter than window_size: the whole read
FailingWindows(quals, cutter) ==
    LET n == Len(quals)
        w == Min(cutter.window_size, n)
    IN  IF n = 0 \/ w = 0 THEN {}
        ELSE {s \in 0..(n - w) :
                SumQuals(quals, s + 1, s + w, cutter.qual_score_base)
                    < cutter.window_min_qual_score * w}

SetMax(S) == CHOOSE x \in S : \A y \in S : y <= x
SetMin(S) == CHOOSE x \in S : \A y \in S : x <= y

\* scanning from the 3' end inward: from the start of the first failing window
QualityBackCut(quals, cutter) ==
    LET f == FailingWindows(quals, cutter)
    IN  IF f = {} THEN 0 ELSE Len(quals) - SetMax(f)

\* scanning from the 5' end: to the end of the first failing window
QualityFrontCut(quals, cutter) ==
    LET f == FailingWindows(quals, cutter)
    IN  IF f = {} THEN 0 ELSE SetMin(f) + Min(cutter.window_size, Len(quals))

BackTrimmerTrim(cutter, read) ==
    TrimResult(0, QualityBackCut(read.quals, cutter), <<>>, FALSE)

FrontBackTrimmerTrim(cutter, read) ==
    TrimResult(QualityFrontCut(read.quals, cutter),
               QualityBackCut(read.quals, cutter), <<>>, FALSE)

(***************************************************************************)
(* PolyXTrimmer, design document section 4.2.  The proportion is held in   *)
(* percent.  The window of window_size symbols ending k symbols before the *)
(* end passes when enough of its symbols are in bases.  No cut when the    *)
(* trailing window fails (or the read has no window of that size);         *)
(* otherwise the cut covers the trailing window and one more symbol for    *)
(* each following window, moving left, that still passes.                  *)
(***************************************************************************)
PolyXWindowPasses(seq, k, cutter) ==
    LET n == Len(seq)
        w == cutter.window_size
        hits == Cardinality({i \in (n - w - k + 1)..(n - k) : seq[i] \in cutter.bases})
    IN  hits * 100 >= cutter.minimum_g_proportion * w

PolyXBackCut(seq, cutter) ==
    LET n == Len(seq)
        w == cutter.window_size
    IN  IF w = 0 \/ n < w \/ ~PolyXWindowPasses(seq, 0, cutter) THEN 0
        ELSE LET run == {m \in 1..(n - w + 1) :
                           \A k \in 0..(m - 1) : PolyXWindowPasses(seq, k, cutter)}
             IN  Min(n, w + SetMax(run) - 1)

PolyXTrimmerTrim(cutter, read) ==
    TrimResult(0, PolyXBackCut(read.seq, cutter), <<>>, FALSE)

(***************************************************************************)
(* PrimerTrimmer, design document section 4.3.  Candidates are the primers *)
(* and their reverse complements; an alignment is an offset where a        *)
(* candidate lies within the read with at most max_mismatches mismatching  *)
(* symbols.  The best alignment has the fewest mismatches, then is the     *)
(* closest to an end (then the leftmost, then the shortest).  Ending       *)
(* within end_proportion (percent) of the read from the 5' end it gives a  *)
(* front cut past it; starting within end_proportion of the 3' end, a back *)
(* cut from its start; otherwise it is interior: the read is dropped or,   *)
(* with allow_split, split at the start of the alignment.                  *)
(***************************************************************************)
Complement(c) ==
    CASE c = "A" -> "T" [] c = "T" -> "A" [] c = "C" -> "G" [] c = "G" -> "C"
      [] OTHER -> c

ReverseComplement(p) == [i \in 1..Len(p) |-> Complement(p[Len(p) + 1 - i])]

Mismatches(seq, cand, o) == Cardinality({i \in 1..Len(cand) : seq[o + i] # cand[i]})

Alignments(seq, cutter) ==
    LET cands == cutter.primers \cup {ReverseComplement(p) : p \in cutter.primers}
    IN  {al \in UNION {[offset : 0..(Len(seq) - Len(c)), len : {Len(c)},
                        mm : {Mismatches(seq, c, o) : o \in 0..(Len(seq) - Len(c))}] :
                       c \in {d \in cands : Len(d) > 0 /\ Len(d) <= Len(seq)}} :
            /\ al.mm <= cutter.max_mismatches
            /\ \E c \in cands : Len(c) = al.len /\ Len(c) <= Len(seq)
                                /\ Mismatches(seq, c, al.offset) = al.mm}

EndDistance(al, n) == Min(al.offset, n - (al.offset + al.len))

Better(a, b, n) ==
    \/ a.mm < b.mm
    \/ a.mm = b.mm /\ EndDistance(a, n) < EndDistance(b, n)
    \/ a.mm = b.mm /\ EndDistance(a, n) = EndDistance(b, n) /\ a.offset < b.offset
    \/ a.mm = b.mm /\ EndDistance(a, n) = EndDistance(b, n) /\ a.offset = b.offset
       /\ a.len <= b.len

PrimerTrimmerTrim(cutter, read) ==
    LET n == Len(read.seq)
        als == Alignments(read.seq, cutter)
    IN  IF als = {} THEN TrimResult(0, 0, <<>>, FALSE)
        ELSE LET best == CHOOSE a \in als : \A b \in als : Better(a, b, n)
             IN  IF (best.offset + best.len) * 100 <= cutter.end_proportion * n
                 THEN TrimResult(best.offset + best.len, 0, <<>>, FALSE)
                 ELSE IF (n - best.offset) * 100 <= cutter.end_proportion * n
                 THEN TrimResult(0, n - best.offset, <<>>, FALSE)
                 ELSE IF cutter.allow_split
                 THEN TrimResult(0, 0, <<best.offset>>, FALSE)
                 ELSE TrimResult(0, 0, <<>>, TRUE)

\* FastqTrimmer::trim, by the kind of the cutter
Trim(cutter, read) ==
    CASE cutter.kind = "PrimerTrimmer" -> PrimerTrimmerTrim(cutter, read)
      [] cutter.kind = "PolyXTrimmer" -> PolyXTrimmerTrim(cutter, read)
      [] cutter.kind = "BackTrimmer" -> BackTrimmerTrim(cutter, read)
      [] cutter.kind = "FrontBackTrimmer" -> FrontBackTrimmerTrim(cutter, read)

(***************************************************************************)
(* main: the cutters, in the order main pushes them.                       *)
(***************************************************************************)
QualScoreBase64 == 32 + 32

QualScoreBase == 32

PrimerTrimmer(a) ==
    [kind |-> "PrimerTrimmer", primers |-> a.primers,
     max_mismatches |-> a.primers_max_mismatch_distance,
     end_proportion |-> a.primers_end_proportion,
     allow_split |-> a.split_on_internal_primers]

PolyXTrimmer(a, bases) ==
    [kind |-> "PolyXTrimmer", window_size |-> a.trim_poly_x_length,
     minimum_g_proportion |-> a.trim_poly_x_proportion, bases |-> bases]

QualityTrimmer(a, kind) ==
    [kind |-> kind, window_size |-> a.window_size,
     window_min_qual_score |-> a.window_min_qual_score,
     qual_score_base |-> QualScoreBase]

CuttersQualityFirst(a) ==
    (IF a.fastq2 THEN <<QualityTrimmer(a, "BackTrimmer")>>
                 ELSE <<QualityTrimmer(a, "FrontBackTrimmer")>>)
    \o (IF a.primers # {} THEN <<PrimerTrimmer(a)>> ELSE <<>>)
    \o (IF a.trim_poly_a THEN <<PolyXTrimmer(a, {"A", "a"})>> ELSE <<>>)
    \o (IF a.trim_poly_g THEN <<PolyXTrimmer(a, {"G", "g"})>> ELSE <<>>)

Cutters(a) ==
    (IF a.primers # {} THEN <<PrimerTrimmer(a)>> ELSE <<>>)
    \o (IF a.trim_poly_a THEN <<PolyXTrimmer(a, {"A", "a"})>> ELSE <<>>)
    \o (IF a.trim_poly_g THEN <<PolyXTrimmer(a, {"G", "g"})>> ELSE <<>>)
    \o (IF a.fastq2 THEN <<QualityTrimmer(a, "BackTrimmer")>>
                    ELSE <<QualityTrimmer(a, "FrontBackTrimmer")>>)

\* assert!(args.preview ^ args.out_fastq1.is_some())
ArgsAccepted(a) == a.preview # a.out_fastq1

(***************************************************************************)
(* The fold of the drivers: base_cuts = TrimResult::join(vec![base_cuts,   *)
(* cut], &true), once per cutter, in the order of the cutters.  calls logs *)
(* each cutter.trim call: the cutter's index and the read it was given.    *)
(***************************************************************************)
FoldStepOverwrite(cuts, cut, n) == Join(<<cut>>, n)

FoldStep(cuts, cut, n) == Join(<<cuts, cut>>, n)

RECURSIVE SingleEndCuts(_, _, _, _, _)
SingleEndCuts(cs, i, read1, cuts, calls) ==
    IF i > Len(cs) THEN [cuts1 |-> cuts, cuts2 |-> FromRead, calls |-> calls]
    ELSE SingleEndCuts(cs, i + 1, read1,
                       FoldStep(cuts, Trim(cs[i], read1), Len(read1.seq)),
                       Append(calls, [cutter |-> i, read |-> 1]))

RECURSIVE PairedEndCuts(_, _, _, _, _, _, _)
PairedEndCuts(cs, i, read1, read2, cuts1, cuts2, calls) ==
    IF i > Len(cs) THEN [cuts1 |-> cuts1, cuts2 |-> cuts2, calls |-> calls]
    ELSE PairedEndCuts(cs, i + 1, read1, read2,
                       FoldStep(cuts1, Trim(cs[i], read1), Len(read1.seq)),
                       FoldStep(cuts2, Trim(cs[i], read2), Len(read2.seq)),
                       calls \o <<[cutter |-> i, read |-> 1],
                                  [cutter |-> i, read |-> 2]>>)

(***************************************************************************)
(* single_end: what one record adds to the output, or to the preview.      *)
(***************************************************************************)
LongEnoughStrict(read, a) == Len(read.seq) > a.minimum_remaining_read_size

LongEnough(read, a) == Len(read.seq) >= a.minimum_remaining_read_size

SingleEndPassing(cuts, read1, a) ==
    IF Keep(cuts)
    THEN SelectSeq(TrimResultsToReads(cuts, read1), LAMBDA r : LongEnough(r, a))
    ELSE <<>>

RECURSIVE WriteReads(_)
WriteReads(reads) ==
    IF reads = <<>> THEN <<>> ELSE WriteRead(Head(reads)) \o WriteReads(Tail(reads))

(***************************************************************************)
(* paired_end: the check that both mates gave as many fragments, and the   *)
(* indices of the fragment pairs that are emitted.                         *)
(***************************************************************************)
FragmentsPairedAtMost(reads1, reads2) == Len(reads1) <= Len(reads2)

FragmentsPaired(reads1, reads2) == Len(reads1) = Len(reads2)

PairedEndPassingEither(reads1, reads2, a) ==
    {k \in 1..Min(Len(reads1), Len(reads2)) :
        LongEnough(reads1[k], a) \/ LongEnough(reads2[k], a)}

PairedEndPassing(reads1, reads2, a) ==
    {k \in 1..Min(Len(reads1), Len(reads2)) :
        LongEnough(reads1[k], a) /\ LongEnough(reads2[k], a)}

\* the reads of a sequence at the indices of a set, in order
RECURSIVE PickReads(_, _, _)
PickReads(reads, idx, k) ==
    IF k > Len(reads) THEN <<>>
    ELSE (IF k \in idx THEN <<reads[k]>> ELSE <<>>) \o PickReads(reads, idx, k + 1)

PairedEndWrittenBeforeCheck(reads1, reads2, a) ==
    PairedEndPassing(reads1, reads2, a)

\* an iteration whose fragment counts differ panics before it writes
PairedEndWritten(reads1, reads2, a) ==
    IF FragmentsPaired(reads1, reads2)
    THEN PairedEndPassing(reads1, reads2, a)
    ELSE {}

RECURSIVE PairNames(_, _)
PairNames(reads1, reads2) ==
    IF reads1 = <<>> THEN <<>>
    ELSE <<Head(reads1).name, Head(reads2).name>> \o PairNames(Tail(reads1), Tail(reads2))

(***************************************************************************)
(* The inputs of the driver runs: command lines, and files holding up to   *)
(* MaxRecs of a few short reads (window sizes, the minimum read size and   *)
(* the primer are scaled to the reads).                                    *)
(***************************************************************************)
ReadA == FastqRecord(<<"@", "a">>, <<"T", "G", "A">>, <<"I", "I", "I">>)
ReadB == FastqRecord(<<"@", "b">>, <<"A", "G", "G">>, <<"I", "I", "!">>)
ReadC == FastqRecord(<<"@", "c">>, <<"T", "N", "G">>, <<"I", "I", "I">>)
ReadPool == {ReadA, ReadB, ReadC}

ReadSeqs(n) == UNION {[1..k -> ReadPool] : k \in 0..n}

Files == {WriteReads(rs) : rs \in ReadSeqs(MaxRecs)}

ArgsSet ==
    {a \in [fastq2 : BOOLEAN, out_fastq1 : BOOLEAN, preview : BOOLEAN,
            minimum_remaining_read_size : {1, 2},
            window_min_qual_score : {10}, window_size : {1},
            trim_poly_a : BOOLEAN, trim_poly_g : BOOLEAN,
            trim_poly_x_length : {1}, trim_poly_x_proportion : {90},
            primers : {{}, {<<"N">>}}, primers_max_mismatch_distance : {0},
            primers_end_proportion : {34},
            split_on_internal_primers : BOOLEAN] :
        a.split_on_internal_primers => a.primers # {}}

Init ==
    /\ pc = "start"
    /\ args \in ArgsSet
    /\ cutters = <<>>
    /\ fastq1 \in Files
    /\ fastq2 \in (IF args.fastq2 THEN Files ELSE {<<>>})
    /\ reader1 = <<>>
    /\ reader2 = <<>>
    /\ out_fastq1 = <<>>
    /\ out_fastq2 = <<>>
    /\ stdout = <<>>
    /\ history = <<>>
    /\ read_len = 0
    /\ proposals = <<>>
    /\ order = <<>>
    /\ base_cuts = FromRead

(***************************************************************************)
(* main up to the call of a driver: the argument check, the readers, the   *)
(* cutters.                                                                *)
(***************************************************************************)
Main ==
    /\ pc = "start"
    /\ IF ~ArgsAccepted(args)
       THEN /\ pc' = "panic_args"
            /\ UNCHANGED <<cutters, reader1, reader2>>
       ELSE /\ pc' = IF args.fastq2 THEN "paired" ELSE "single"
            /\ cutters' = Cutters(args)
            /\ reader1' = fastq1
            /\ reader2' = IF args.fastq2 THEN fastq2 ELSE <<>>
    /\ UNCHANGED <<args, fastq1, fastq2, out_fastq1, out_fastq2, stdout, history,
                   read_len, proposals, order, base_cuts>>

(***************************************************************************)
(* single_end: one iteration of the while loop on a record.                *)
(***************************************************************************)
SingleEndIteration ==
    /\ pc = "single"
    /\ \E nx \in {FastqNext(reader1)} :
         /\ nx.kind = "Some"
         /\ \E loop \in {SingleEndCuts(cutters, 1, nx.rec, FromRead, <<>>)} :
            \E passing \in {SingleEndPassing(loop.cuts1, nx.rec, args)} :
              /\ reader1' = nx.rest
              /\ IF args.preview
                 THEN /\ stdout' = stdout \o [k \in 1..Len(passing) |-> nx.rec.name]
                      /\ UNCHANGED out_fastq1
                 ELSE /\ out_fastq1' = out_fastq1 \o WriteReads(passing)
                      /\ UNCHANGED stdout
              /\ history' = Append(history,
                     [read1 |-> nx.rec, read2 |-> NoRecord,
                      cuts1 |-> loop.cuts1, cuts2 |-> loop.cuts2,
                      reads1 |-> TrimResultsToReads(loop.cuts1, nx.rec),
                      reads2 |-> <<>>, calls |-> loop.calls])
    /\ UNCHANGED <<pc, args, cutters, fastq1, fastq2, reader2, out_fastq2,
                   read_len, proposals, order, base_cuts>>

\* single_end: reader1.next() gives no record; the output is flushed
SingleEndFinish ==
    /\ pc = "single"
    /\ \E nx \in {FastqNext(reader1)} :
         /\ nx.kind # "Some"
         /\ pc' = IF nx.kind = "None" THEN "done" ELSE "panic_header"
         /\ reader1' = nx.rest
    /\ UNCHANGED <<args, cutters, fastq1, fastq2, reader2, out_fastq1, out_fastq2,
                   stdout, history, read_len, proposals, order, base_cuts>>

(***************************************************************************)
(* paired_end: one iteration of the while loop on a pair of records.       *)
(***************************************************************************)
PairedEndIteration ==
    /\ pc = "paired"
    /\ \E nx1 \in {FastqNext(reader1)}, nx2 \in {FastqNext(reader2)} :
         /\ nx1.kind = "Some"
         /\ nx2.kind = "Some"
         /\ \E loop \in {PairedEndCuts(cutters, 1, nx1.rec, nx2.rec,
                                       FromRead, FromRead, <<>>)} :
            \E reads1 \in {TrimResultsToReads(loop.cuts1, nx1.rec)},
               reads2 \in {TrimResultsToReads(loop.cuts2, nx2.rec)} :
            \E written \in {PairedEndWritten(reads1, reads2, args)} :
              /\ reader1' = nx1.rest
              /\ reader2' = nx2.rest
              /\ pc' = IF FragmentsPaired(reads1, reads2)
                       THEN "paired" ELSE "panic_fragments"
              /\ IF args.preview
                 THEN /\ stdout' = stdout \o PairNames(PickReads(reads1, written, 1),
                                                       PickReads(reads2, written, 1))
                      /\ UNCHANGED <<out_fastq1, out_fastq2>>
                 ELSE /\ out_fastq1' = out_fastq1
                                       \o WriteReads(PickReads(reads1, written, 1))
                      /\ out_fastq2' = out_fastq2
                                       \o WriteReads(PickReads(reads2, written, 1))
                      /\ UNCHANGED stdout
              /\ history' = Append(history,
                     [read1 |-> nx1.rec, read2 |-> nx2.rec,
                      cuts1 |-> loop.cuts1, cuts2 |-> loop.cuts2,
                      reads1 |-> reads1, reads2 |-> reads2,
                      calls |-> loop.calls])
    /\ UNCHANGED <<args, cutters, fastq1, fastq2, read_len, proposals, order, base_cuts>>

\* paired_end: reader1 has a record and reader2.next() gives none: panic
PairedEndUnpaired ==
    /\ pc = "paired"
    /\ \E nx1 \in {FastqNext(reader1)}, nx2 \in {FastqNext(reader2)} :
         /\ nx1.kind = "Some"
         /\ nx2.kind # "Some"
         /\ pc' = IF nx2.kind = "None" THEN "panic_unpaired" ELSE "panic_header"
         /\ reader1' = nx1.rest
         /\ reader2' = nx2.rest
    /\ UNCHANGED <<args, cutters, fastq1, fastq2, out_fastq1, out_fastq2, stdout,
                   history, read_len, proposals, order, base_cuts>>

\* paired_end: reader1.next() gives no record; both outputs are flushed
PairedEndFinish ==
    /\ pc = "paired"
    /\ \E nx1 \in {FastqNext(reader1)} :
         /\ nx1.kind # "Some"
         /\ pc' = IF nx1.kind = "None" THEN "done" ELSE "panic_header"
         /\ reader1' = nx1.rest
    /\ UNCHANGED <<args, cutters, fastq1, fastq2, reader2, out_fastq1, out_fastq2,
                   stdout, history, read_len, proposals, order, base_cuts>>

Next ==
    \/ Main
    \/ SingleEndIteration
    \/ SingleEndFinish
    \/ PairedEndIteration
    \/ PairedEndUnpaired
    \/ PairedEndFinish

Spec == Init /\ [][Next]_vars

(***************************************************************************)
(* The decoder on its own: FastqInputFile::next called up to MaxCalls      *)
(* times on a raw stream of up to MaxLines lines, the last one with or     *)
(* without its line feed.  history logs each call: the unread bytes before *)
(* it, and what it returned.                                               *)
(***************************************************************************)
LinePool == {<<"@", "r">>, <<"A">>, <<"A", "C">>, <<>>, <<BadByte>>}

LineSeqs(n) == UNION {[1..k -> LinePool] : k \in 0..n}

Terminated(lines) == Flatten([k \in 1..Len(lines) |-> lines[k] \o <<NL>>])

RawStreams ==
    {Terminated(ls) : ls \in LineSeqs(MaxLines)}
    \cup {Pop(Terminated(ls)) : ls \in LineSeqs(MaxLines)}

DefaultArgs ==
    [fastq2 |-> FALSE, out_fastq1 |-> TRUE, preview |-> FALSE,
     minimum_remaining_read_size |-> 10,
     window_min_qual_score |-> 10, window_size |-> 10,
     trim_poly_a |-> FALSE, trim_poly_g |-> FALSE,
     trim_poly_x_length |-> 10, trim_poly_x_proportion |-> 90,
     primers |-> {}, primers_max_mismatch_distance |-> 1,
     primers_end_proportion |-> 20,
     split_on_internal_primers |-> FALSE]

InitDecoder ==
    /\ pc = "decode"
    /\ args = DefaultArgs
    /\ cutters = <<>>
    /\ fastq1 \in RawStreams
    /\ fastq2 = <<>>
    /\ reader1 = fastq1
    /\ reader2 = <<>>
    /\ out_fastq1 = <<>>
    /\ out_fastq2 = <<>>
    /\ stdout = <<>>
    /\ history = <<>>
    /\ read_len = 0
    /\ proposals = <<>>
    /\ order = <<>>
    /\ base_cuts = FromRead

DecoderNext ==
    /\ pc = "decode"
    /\ Len(history) < MaxCalls
    /\ \E nx \in {FastqNext(reader1)} :
         /\ pc' = IF nx.kind = "Panic" THEN "panic_header" ELSE "decode"
         /\ reader1' = nx.rest
         /\ history' = Append(history,
                [before |-> reader1, kind |-> nx.kind, rec |-> nx.rec])
    /\ UNCHANGED <<args, cutters, fastq1, fastq2, reader2, out_fastq1, out_fastq2,
                   stdout, read_len, proposals, order, base_cuts>>

SpecDecoder == InitDecoder /\ [][DecoderNext]_vars

(***************************************************************************)
(* Composition on its own: a single-end command line with every strategy   *)
(* enabled, one read of up to MaxLen symbols, the proposal of each cutter  *)
(* for it.  The proposals are joined into base_cuts one at a time as the   *)
(* drivers join them, in any order, one of them possibly twice in a row.   *)
(***************************************************************************)
ComposeArgs ==
    {a \in ArgsSet : /\ ~a.fastq2 /\ a.out_fastq1 /\ ~a.preview
                     /\ a.minimum_remaining_read_size = 1
                     /\ a.primers # {} /\ a.trim_poly_a /\ a.trim_poly_g}

ComposeReads ==
    UNION {{FastqRecord(<<"@", "r">>, sq, ql) :
                sq \in [1..n -> {"A", "G", "T", "N"}], ql \in [1..n -> {"I", "!"}]} :
           n \in 0..MaxLen}

InitCompose ==
    /\ pc = "compose"
    /\ args \in ComposeArgs
    /\ cutters = Cutters(args)
    /\ fastq1 \in {WriteRead(r) : r \in ComposeReads}
    /\ fastq2 = <<>>
    /\ reader1 = <<>>
    /\ reader2 = <<>>
    /\ out_fastq1 = <<>>
    /\ out_fastq2 = <<>>
    /\ stdout = <<>>
    /\ history = <<>>
    /\ read_len = Len(FastqNext(fastq1).rec.seq)
    /\ proposals = [i \in 1..Len(cutters) |-> Trim(cutters[i], FastqNext(fastq1).rec)]
    /\ order = <<>>
    /\ base_cuts = FromRead

Joined == {order[k] : k \in 1..Len(order)}

JoinNext ==
    /\ pc = "compose"
    /\ \E i \in 1..Len(proposals) :
         /\ \/ i \notin Joined
            \/ order # <<>> /\ i = order[Len(order)] /\ Cardinality(Joined) = Len(order)
         /\ base_cuts' = FoldStep(base_cuts, proposals[i], read_len)
         /\ order' = Append(order, i)
    /\ UNCHANGED <<pc, args, cutters, fastq1, fastq2, reader1, reader2, out_fastq1,
                   out_fastq2, stdout, history, read_len, proposals>>

SpecCompose == InitCompose /\ [][JoinNext]_vars

(***************************************************************************)
(* Poly-A trimming on its own: main's default command line with            *)
(* --trim-poly-a, single end, on one record of high quality made of a run  *)
(* of A, TTTT, GGGG and a run of A, the runs up to MaxRun long.            *)
(***************************************************************************)
MaxRun == 10

Run(c, n) == [i \in 1..n |-> c]

PolyAReads ==
    {FastqRecord(<<"@", "r">>,
                 Run("A", i) \o Run("T", j) \o Run("G", k) \o Run("A", l),
                 Run("I", i + j + k + l)) :
        i \in 0..MaxRun, j \in {0, 4}, k \in {0, 4}, l \in 0..MaxRun}

InitPolyA ==
    /\ pc = "start"
    /\ args = [DefaultArgs EXCEPT !.trim_poly_a = TRUE]
    /\ cutters = <<>>
    /\ fastq1 \in {WriteRead(r) : r \in PolyAReads}
    /\ fastq2 = <<>>
    /\ reader1 = <<>>
    /\ reader2 = <<>>
    /\ out_fastq1 = <<>>
    /\ out_fastq2 = <<>>
    /\ stdout = <<>>
    /\ history = <<>>
    /\ read_len = 0
    /\ proposals = <<>>
    /\ order = <<>>
    /\ base_cuts = FromRead

NextPolyA ==
    \/ Main
    \/ SingleEndIteration
    \/ SingleEndFinish

SpecPolyA == InitPolyA /\ [][NextPolyA]_vars

(***************************************************************************)
(* Properties of the decoder (specification SpecDecoder).                      *)
(***************************************************************************)
\* the lines of a stream, by the positions of its line feeds
FeedsAt(s) == {i \in 1..Len(s) : s[i] = NL}

NumLines(s) ==
    Cardinality(FeedsAt(s)) + (IF s # <<>> /\ s[Len(s)] # NL THEN 1 ELSE 0)

\* the k-th line of s with its line feed, empty when s has fewer lines
LineOf(s, k) ==
    LET ends == FeedsAt(s) \cup {Len(s)}
        upTo(j) == IF j = 0 THEN 0
                   ELSE IF Cardinality(ends) < j THEN Len(s)
                   ELSE CHOOSE e \in ends : Cardinality({x \in ends : x <= e}) = j
    IN  SubSeq(s, upTo(k - 1) + 1, upTo(k))

Unreadable(line) == \E i \in 1..Len(line) : line[i] = BadByte

EndsMidRecord(s) == NumLines(s) \in 1..3

HeaderWithoutAt(s) == s # <<>> /\ s[1] # "@"

\* a read of one of the record's lines fails
ReadFails(s) ==
    \/ Unreadable(LineOf(s, 1))
    \/ /\ s # <<>>
       /\ s[1] = "@"
       /\ \E k \in 2..4 : Unreadable(LineOf(s, k))

C7_SymbolsAndQualitiesAligned ==
    pc \in {"decode", "panic_header"} =>
        \A i \in 1..Len(history) :
            history[i].kind = "Some"
            => Len(history[i].rec.seq) = Len(history[i].rec.quals)

(***************************************************************************)
(* Properties of the drivers (specification Spec).                             *)
(***************************************************************************)
Running == {"single", "paired"}
Ended == {"done", "panic_unpaired", "panic_fragments", "panic_header"}
Desynchronized == {"panic_unpaired", "panic_fragments"}

\* C1: a paired-end run on two files whose record counts differ, whichever
\* is the shorter, ends in a fatal desynchronization.
C1_UnequalRecordCountsAreFatal ==
    (args.fastq2 /\ pc \in Ended
        /\ Len(ReadAll(fastq1)) # Len(ReadAll(fastq2)))
    => pc \in Desynchronized

\* C2: the paired-end iteration that ends in a fatal desynchronization
\* appends nothing to either output and leaves what the iterations before it
\* wrote unchanged.
C2_FatalIterationWritesNothing ==
    [][(pc = "paired" /\ pc' \in Desynchronized)
        => (out_fastq1' = out_fastq1 /\ out_fastq2' = out_fastq2)]_vars

\* the run wrote a pair, then an iteration found unequal fragment counts
C2_Witness ==
    /\ pc = "panic_fragments"
    /\ ~args.preview
    /\ Len(history) = 2
    /\ out_fastq1 # <<>>
    /\ out_fastq2 # <<>>
    /\ Len(history[2].reads1) = 2
    /\ Len(history[2].reads2) = 1

\* C3: a paired-end iteration goes on to the filter and emit step only when
\* both mates gave the same number of fragments (0, 1 or 2); any unequal
\* count ends the run in a fatal desynchronization.
C3_UnequalFragmentCountsAreFatal ==
    (args.fastq2 /\ pc \in Running \cup Ended) =>
        \A i \in 1..Len(history) :
            /\ Len(history[i].reads1) \in 0..2
            /\ Len(history[i].reads2) \in 0..2
            /\ (Len(history[i].reads1) # Len(history[i].reads2))
               <=> (pc = "panic_fragments" /\ i = Len(history))

\* one mate gave no fragment and the other gave one
C3_Witness ==
    /\ pc = "panic_fragments"
    /\ Len(history[Len(history)].reads1) = 0
    /\ Len(history[Len(history)].reads2) = 1

\* the fragment pairs the iterations so far emit: index by index, both long enough
RECURSIVE ExpectedPairs(_, _, _)
ExpectedPairs(hs, i, k) ==
    IF i > Len(hs) THEN <<>>
    ELSE IF Len(hs[i].reads1) # Len(hs[i].reads2) \/ k > Len(hs[i].reads1)
         THEN ExpectedPairs(hs, i + 1, 1)
    ELSE (IF /\ Len(hs[i].reads1[k].seq) >= args.minimum_remaining_read_size
             /\ Len(hs[i].reads2[k].seq) >= args.minimum_remaining_read_size
          THEN <<[pair |-> i, fragment |-> k,
                  read1 |-> hs[i].reads1[k], read2 |-> hs[i].reads2[k]]>>
          ELSE <<>>)
         \o ExpectedPairs(hs, i, k + 1)

RECURSIVE ExpectedReads(_, _, _)
ExpectedReads(hs, i, k) ==
    IF i > Len(hs) THEN <<>>
    ELSE IF ~hs[i].cuts1.keep \/ k > Len(hs[i].reads1)
         THEN ExpectedReads(hs, i + 1, 1)
    ELSE (IF Len(hs[i].reads1[k].seq) >= args.minimum_remaining_read_size
          THEN <<hs[i].reads1[k]>> ELSE <<>>)
         \o ExpectedReads(hs, i, k + 1)

\* C5: in a single-end run that writes output, the output is, in input
\* order, the fragments of each kept record that have at least the minimum
\* length, each fragment judged on its own; a fragment of exactly the
\* minimum length is written; a record is fully processed before the next
\* one is read.
C5_SingleEndOutput ==
    (~args.fastq2 /\ ~args.preview /\ pc \in Running \cup Ended) =>
        LET input == ReadAll(fastq1)
        IN  /\ ReadAll(out_fastq1) = ExpectedReads(history, 1, 1)
            /\ Len(history) <= Len(input)
            /\ \A i \in 1..Len(history) : history[i].read1 = input[i]
            /\ pc = "single"
               => ReadAll(reader1) = SubSeq(input, Len(history) + 1, Len(input))
            /\ pc = "done" => Len(history) = Len(input)

\* a record was split in two; the fragment shorter than the minimum was
\* dropped and the one of exactly the minimum length was written, after the
\* output of the record before it
C5_Witness ==
    /\ ~args.fastq2 /\ ~args.preview /\ pc = "done"
    /\ Len(history) = 2
    /\ Len(history[1].reads1) = 1
    /\ Len(history[2].reads1) = 2
    /\ Len(history[2].reads1[1].seq) < args.minimum_remaining_read_size
    /\ Len(history[2].reads1[2].seq) = args.minimum_remaining_read_size
    /\ Len(ReadAll(out_fastq1)) = 2
    /\ ReadAll(out_fastq1)[2] = history[2].reads1[2]

\* what a cutter is: its kind and, for a PolyXTrimmer, its bases
Strategy(cutter) ==
    IF cutter.kind = "PolyXTrimmer" THEN <<cutter.kind, cutter.bases>>
    ELSE <<cutter.kind>>

QualityKinds == {"BackTrimmer", "FrontBackTrimmer"}

\* C10: the strategies are called on each record in the order primer
\* trimmer (if primers are given), poly-A trimmer (if enabled), poly-G
\* trimmer (if enabled), quality-window trimmer; there is exactly one
\* quality-window trimmer, the last one (tail-only with a second file,
\* head and tail otherwise); no strategy is called twice on a record.
C10_StrategiesInFixedOrder ==
    pc \in Running \cup Ended =>
        LET n == Len(cutters)
            reads == IF args.fastq2 THEN {1, 2} ELSE {1}
        IN  /\ [i \in 1..n |-> Strategy(cutters[i])]
               = (IF args.primers # {} THEN <<<<"PrimerTrimmer">>>> ELSE <<>>)
                 \o (IF args.trim_poly_a THEN <<<<"PolyXTrimmer", {"A", "a"}>>>> ELSE <<>>)
                 \o (IF args.trim_poly_g THEN <<<<"PolyXTrimmer", {"G", "g"}>>>> ELSE <<>>)
                 \o (IF args.fastq2 THEN <<<<"BackTrimmer">>>>
                                    ELSE <<<<"FrontBackTrimmer">>>>)
            /\ {i \in 1..n : cutters[i].kind \in QualityKinds} = {n}
            /\ \A h \in 1..Len(history) :
                 /\ \A c \in 1..Len(history[h].calls) : history[h].calls[c].read \in reads
                 /\ \A r \in reads :
                      SelectSeq(history[h].calls, LAMBDA c : c.read = r)
                      = [i \in 1..n |-> [cutter |-> i, read |-> r]]

\* a pair of records went through all four strategies
C10_Witness ==
    /\ args.fastq2
    /\ Len(cutters) = 4
    /\ Len(history) >= 1
    /\ Len(history[1].calls) = 8

(***************************************************************************)
(* Properties of the composition (specification SpecCompose).                  *)
(***************************************************************************)
Geometry(tr) == <<tr.front_cut, tr.back_cut, tr.keep>>

\* every proposal a trimmer may make on a read of n symbols
Shapes(n) ==
    {TrimResult(f, b, <<>>, d) : f \in 0..n, b \in 0..n, d \in BOOLEAN}
    \cup {TrimResult(0, 0, <<k>>, FALSE) : k \in 0..n}

\* C8: composing [A, B] and [B, A] gives the same front_cut, back_cut and
\* keep; composing [A, A] gives the same as composing [A]; the drivers'
\* fold from the no-op decision gives the same front_cut, back_cut and keep
\* in whatever order the strategies' proposals are joined, clamped or not.
C8_CompositionOrderIndependent ==
    pc = "compose" =>
        /\ order = <<>> => \A i \in 1..Len(proposals) :
             /\ \A b \in Shapes(read_len) :
                  Geometry(Join(<<proposals[i], b>>, read_len))
                  = Geometry(Join(<<b, proposals[i]>>, read_len))
             /\ Geometry(Join(<<proposals[i], proposals[i]>>, read_len))
                = Geometry(Join(<<proposals[i]>>, read_len))
        /\ Joined = 1..Len(proposals)
           => Geometry(base_cuts)
              = Geometry(SingleEndCuts(cutters, 1, FastqNext(fastq1).rec,
                                       FromRead, <<>>).cuts1)

\* the four proposals were joined in another order than the declared one,
\* one of them twice, and the cuts they ask for exceed the read
C8_Witness ==
    /\ pc = "compose"
    /\ Len(order) = 5
    /\ Joined = 1..4
    /\ order[1] = 4
    /\ order[4] = 1
    /\ MaxFront(proposals) + MaxBack(proposals) > read_len
    /\ base_cuts.front_cut + base_cuts.back_cut = read_len
    /\ \E i, j \in 1..4 : Geometry(proposals[i]) # Geometry(proposals[j])

(***************************************************************************)
(* Properties of poly-A trimming (specification SpecPolyA).                    *)
(***************************************************************************)
C9Read ==
    FastqRecord(<<"@", "r">>,
                Run("A", 10) \o Run("T", 4) \o Run("G", 4), Run("I", 18))

====
